---- MODULE Spec2Model ----
(***************************************************************************)
(* Dependency-aware package selection of the ROS2 workspace manager GUI    *)
(* (src/workspace_manager/gui/main_window.py): the workspace scan that     *)
(* builds the forward and reverse dependency maps, the checkbox change     *)
(* handler with its recursive select / deselect propagation, the closure   *)
(* computed for the dependency graph view, the layering and layout of the  *)
(* graph scene, the focus and highlights of its nodes, the manifest        *)
(* parser, the choice of the workspace root, and the build process with    *)
(* the message boxes in whose event loop its signals arrive.               *)
(*                                                                         *)
(* Qt delivers stateChanged synchronously from inside setChecked, and only *)
(* when the state really changes.  The propagation is therefore modelled   *)
(* as an explicit call stack: a frame per active call of                   *)
(* select_dependencies / deselect_dependent_packages / select_all, and a   *)
(* visited set per top-level call (visited=None creates a fresh one).      *)
(***************************************************************************)
EXTENDS Integers, Sequences, FiniteSets, TLC

\* ------------------------------------------------------------------------
\* Universe of the model
\* ------------------------------------------------------------------------

\* Package names that a manifest of the workspace may declare.
Pkgs == {"a", "b", "c"}

\* A dependency identifier that never names a package of the workspace.
External == {"x"}

Ids == Pkgs \cup External

\* Lexicographic order of the identifiers (Python's sorted()).
Rank == [a |-> 1, b |-> 2, c |-> 3, x |-> 4]

\* The directories below <workspace>/src, in the order os.walk visits them.
Dirs == <<"d1", "d2", "d3">>

DirIdx == 1..Len(Dirs)

\* What get_package_name_from_xml returns for a manifest that does not parse
\* or has no <name> element.
None == "None"

\* Largest number of dependency identifiers one manifest declares.
MaxDeps == 2

\* Largest number of directories whose content changes between two scans.
MaxEdits == 1

\* Deepest call stack the model follows.
MaxStack == 12

\* Largest number of child elements of a document handed to the parser.
MaxElems == 3

\* Number of user toggles, select-all and deselect-all clicks the model
\* follows in one run of the program.
MaxEvents == 1

\* ------------------------------------------------------------------------
\* State
\* ------------------------------------------------------------------------
VARIABLES
    package_dependencies,   \* self.package_dependencies : name -> set of names
    reverse_dependencies,   \* self.reverse_dependencies : name -> set of names
    package_checkboxes,     \* self.package_checkboxes   : name -> isChecked()
    config,                 \* self.config['last_selected_packages'], as a set
    tree,                   \* the src tree read by the most recent scan
    stack,                  \* active calls of the propagation, innermost last
    chains,                 \* the visited set of every active top-level call
    processed,              \* per active top-level call: times a package got past the visited test
    event,                  \* the user action being served (or last served)
    topCalls,               \* top-level select/deselect calls started for that action
    g_pc,                   \* show_dependency_graph: "idle", "loop" (in the while loop) or "done"
    g_seeds,                \* the list the while loop was seeded with
    g_nodes,                \* nodes
    g_stack,                \* stack, top last
    g_expanded,             \* times the loop body got past `if p in nodes` for a package
    g_edges,                \* edges of show_dependency_graph, as a set of <<src, dep>>
    events,                 \* user toggles, select-all and deselect-all clicks served so far
    sc_pc,                  \* the graph dialog's scene: "closed" or "open"
    scene_nodes,            \* the nodes argument of _build_dependency_scene
    scene_edges,            \* scene.edges, as a set of <<src, dest>>
    levels,                 \* levels of _build_dependency_scene: a list of lists
    pos,                    \* pos: name -> <<x, y>>
    node_items,             \* scene.node_items: name -> [isSelected, highlight_type]
    edge_items,             \* scene.edge_items: <<src, dest>> -> colour of the line
    pressed,                \* the mouse click served last (node, button, Control at the
                            \* press and at the release), whether its release is pending
                            \* (grab), and the nodes that were selected before it (prev)
    m_doc,                  \* the package.xml handed to get_package_dependencies
    m_deps,                 \* what get_package_dependencies returned for it
    m_exc,                  \* whether an exception left get_package_dependencies
    workspace_root,         \* self.workspace_root: None or the chosen directory
    listed_root,            \* the workspace_root the listed packages were scanned from
    ws_pc,                  \* select_workspace: "idle", or "box" while its warning box is open
    building,               \* self.build_process.state() is not NotRunning
    ui_building,            \* the last argument of _set_building_ui_state: the build
                            \* button and the package table are disabled, act_stop enabled
    orphans,                \* the processes build_package replaced while they ran: their
                            \* finished signal is still to come
    msg_boxes               \* the open message boxes of _on_build_finished and
                            \* _on_build_error after which something is still to come,
                            \* the one opened last at the end

vars == <<package_dependencies, reverse_dependencies, package_checkboxes,
          config, tree, stack, chains, processed, event, topCalls,
          g_pc, g_seeds, g_nodes, g_stack, g_expanded, g_edges, events,
          sc_pc, scene_nodes, scene_edges, levels, pos, node_items, edge_items, pressed,
          m_doc, m_deps, m_exc, workspace_root, listed_root, ws_pc, building,
          ui_building, orphans, msg_boxes>>

viewVars == <<g_pc, g_seeds, g_nodes, g_stack, g_expanded, g_edges>>

selVars == <<stack, chains, processed, event, topCalls, events>>

graphVars == <<package_dependencies, reverse_dependencies, tree>>

sceneVars == <<sc_pc, scene_nodes, scene_edges, levels, pos, node_items, edge_items,
               pressed>>

parseVars == <<m_doc, m_deps, m_exc>>

auxVars == <<sceneVars, parseVars>>

Front(q) == SubSeq(q, 1, Len(q) - 1)

Last(q) == q[Len(q)]

buildVars == <<building, ui_building, orphans, msg_boxes>>

rootVars == <<workspace_root, listed_root, ws_pc, buildVars>>

\* No message box is open: the window takes the user's input.  (A message
\* box is modal; the signals of a build process are delivered in its event
\* loop all the same.)
NoBox == ws_pc = "idle" /\ g_pc # "box" /\ msg_boxes = <<>>

\* ------------------------------------------------------------------------
\* Manifests and the workspace scan (refresh_packages)
\* ------------------------------------------------------------------------

\* A directory's manifest is a record: xml says whether the directory has a
\* package.xml, parses whether ET.parse accepts it, raises whether ET.parse
\* fails with an exception that is no ParseError (LookupError for an unknown
\* encoding, OSError for a dangling link or a directory), name is the text
\* of its first <name> child (None when there is none or it is empty) and
\* elems lists its other children in document order as <<tag, text>>, the
\* text "" standing for an element without text.

\* A directory without package.xml.
NoXml == [xml |-> FALSE, parses |-> FALSE, raises |-> FALSE, name |-> None, elems |-> <<>>]

\* A package.xml that fails to parse.
BadXml == [xml |-> TRUE, parses |-> FALSE, raises |-> FALSE, name |-> None, elems |-> <<>>]

\* A package.xml on which ET.parse raises something else than ParseError.
RaisingXml == [xml |-> TRUE, parses |-> FALSE, raises |-> TRUE, name |-> None, elems |-> <<>>]

\* Stands for an exception that leaves a function instead of a value.
Raised == "raised"

\* ET.parse(package_xml_path) raises an exception that `except
\* (ET.ParseError, AttributeError)` does not catch.
Raises(m) == m.raises

\* get_package_name_from_xml: the declared name; None on a parse error and
\* when root.find('name') is None; any other exception of ET.parse leaves
\* the function.
get_package_name_from_xml(m) ==
    IF Raises(m) THEN Raised ELSE IF m.parses THEN m.name ELSE None

\* A parser that does not look at test dependencies.
DepKinds_NoTest == <<"depend", "build_depend", "build_export_depend", "exec_depend">>

\* The dep_type list of get_package_dependencies.
DepKinds == <<"depend", "build_depend", "build_export_depend", "exec_depend",
              "test_depend">>

\* root.findall(dep_type): the children with that tag, in document order.
FindAll(elems, dep_type) == SelectSeq(elems, LAMBDA e : e[1] = dep_type)

\* `for dep in root.findall(dep_type): if dep.text: deps.add(dep.text)`
RECURSIVE AddTexts(_, _)
AddTexts(found, deps) ==
    IF found = <<>> THEN deps
    ELSE AddTexts(Tail(found),
                  IF Head(found)[2] # "" THEN deps \cup {Head(found)[2]} ELSE deps)

\* `for dep_type in [...]`, from the kth kind on.
RECURSIVE CollectDeps(_, _, _)
CollectDeps(elems, k, deps) ==
    IF k > Len(DepKinds) THEN deps
    ELSE CollectDeps(elems, k + 1, AddTexts(FindAll(elems, DepKinds[k]), deps))

\* get_package_dependencies: the set of the texts of the dependency
\* elements; the empty set on a parse error; any other exception of
\* ET.parse leaves the function.
get_package_dependencies(m) ==
    IF Raises(m) THEN Raised ELSE IF m.parses THEN CollectDeps(m.elems, 1, {}) ELSE {}

\* get_package_dependencies has not been applied to a document.
NothingParsed == m_doc = NoXml /\ m_deps = {} /\ m_exc = FALSE

\* get_package_dependencies applied to the document doc: it returns a set,
\* or an exception leaves it and nothing is returned.
ParseDocument(doc) ==
    /\ NothingParsed
    /\ m_doc' = doc
    /\ m_exc' = Raises(doc)
    /\ m_deps' = IF Raises(doc) THEN m_deps ELSE get_package_dependencies(doc)
    /\ UNCHANGED <<graphVars, package_checkboxes, config, selVars, viewVars, sceneVars, rootVars>>

\* dict[k] = v on a map with a growing key set.
Put(m, k, v) == [x \in (DOMAIN m) \cup {k} |-> IF x = k THEN v ELSE m[x]]

\* dict.get(k, set())
Get(m, k) == IF k \in DOMAIN m THEN m[k] ELSE {}

EmptyMap == [x \in {} |-> {}]

\* A scan that forgets to clear the map of the previous scan.
Clear_Kept(m) == m

\* dict.clear()
Clear(m) == EmptyMap

\* First pass of refresh_packages, over the directories in walk order, from
\* directory i on.  acc.keys is the insertion order of available_packages,
\* acc.avail maps a name to the directory of its manifest (a later manifest
\* of the same name overwrites the entry), acc.fwd / acc.rev are the two
\* dependency maps: every named package gets an empty entry in both.  An
\* exception that leaves get_package_name_from_xml leaves the loop and
\* refresh_packages: acc.raised, with the entries made so far.
RECURSIVE FirstPass(_, _, _)
FirstPass(t, i, acc) ==
    IF i > Len(Dirs) THEN acc
    ELSE LET package_name == get_package_name_from_xml(t[i]) IN
         IF t[i].xml /\ package_name = Raised
         THEN [acc EXCEPT !.raised = TRUE]
         ELSE IF t[i].xml /\ package_name # None
         THEN FirstPass(t, i + 1,
                [keys  |-> IF package_name \in DOMAIN acc.avail
                           THEN acc.keys ELSE Append(acc.keys, package_name),
                 avail |-> Put(acc.avail, package_name, i),
                 fwd   |-> Put(acc.fwd, package_name, {}),
                 rev   |-> Put(acc.rev, package_name, {}),
                 raised |-> FALSE])
         ELSE FirstPass(t, i + 1, acc)

\* reverse_dependencies[dep].add(package_name) for every dep in workspace_deps.
AddDependent(rev, workspace_deps, package_name) ==
    [d \in DOMAIN rev |->
        IF d \in workspace_deps THEN rev[d] \cup {package_name} ELSE rev[d]]

\* deps.intersection(available_packages.keys())
WorkspaceDeps(deps, avail) == deps \cap DOMAIN avail

\* Second pass of refresh_packages, over available_packages.items() from
\* position k on.
RECURSIVE SecondPass(_, _, _)
SecondPass(t, k, acc) ==
    IF k > Len(acc.keys) THEN acc
    ELSE LET package_name == acc.keys[k]
             deps == get_package_dependencies(t[acc.avail[package_name]])
             workspace_deps == WorkspaceDeps(deps, acc.avail)
         IN  SecondPass(t, k + 1,
                [acc EXCEPT !.fwd = Put(acc.fwd, package_name, workspace_deps),
                            !.rev = AddDependent(acc.rev, workspace_deps, package_name)])

\* Both passes, starting from the cleared maps.  The second pass runs when
\* no exception left the first one (it parses the files the first pass
\* parsed).
Scan(t, fwd0, rev0) ==
    LET first == FirstPass(t, 1, [keys |-> <<>>, avail |-> EmptyMap,
                                  fwd |-> Clear(fwd0), rev |-> Clear(rev0),
                                  raised |-> FALSE])
    IN  IF first.raised THEN first ELSE SecondPass(t, 1, first)

\* Third part of refresh_packages: one checkbox per available package,
\* checked iff the name is in config['last_selected_packages'].  The
\* stateChanged signal is connected after setChecked, so restoring the
\* state runs no handler.
Checkboxes(avail, boxes0, cfg) ==
    LET base == Clear(boxes0) IN
    [n \in (DOMAIN base) \cup (DOMAIN avail) |->
        IF n \in DOMAIN avail THEN n \in cfg ELSE base[n]]

\* The checkboxes refresh_packages leaves: when an exception left the first
\* pass, package_checkboxes.clear() has run and no checkbox was created.
BoxesAfter(r, boxes0, cfg) ==
    IF r.raised THEN Clear(boxes0) ELSE Checkboxes(r.avail, boxes0, cfg)

NoEvent == [kind |-> "none", pkg |-> None]

\* The directories the file dialog can return.
Roots == {"w1", "w2"}

\* The two tests refresh_packages starts with: a workspace is chosen, and
\* os.path.exists(src_dir) holds.
Precondition(src_exists) == workspace_root # None /\ src_exists

\* A refresh_packages that fails a test: a warning box and `return`, before
\* any clear().
Refused ==
    /\ event' = [kind |-> "refused", pkg |-> None]
    /\ UNCHANGED <<graphVars, package_checkboxes, config, stack, chains, processed,
                   topCalls, events, rootVars>>

\* The body of refresh_packages on a workspace whose src directory holds
\* tree t.  When an exception leaves the first pass, the maps hold the
\* entries made so far and there is no checkbox.
Rescan(t) ==
    /\ stack = <<>>
    /\ \E r \in {Scan(t, package_dependencies, reverse_dependencies)} :
          /\ package_dependencies' = r.fwd
          /\ reverse_dependencies' = r.rev
          /\ package_checkboxes' = BoxesAfter(r, package_checkboxes, config)
    /\ tree' = t
    /\ event' = NoEvent
    /\ topCalls' = 0
    /\ listed_root' = workspace_root
    /\ UNCHANGED <<config, stack, chains, processed, events, workspace_root, ws_pc,
                   buildVars>>

\* refresh_packages as the toolbar action: src_exists tells whether
\* workspace_root has a src directory, t is the tree it holds.  The action
\* cannot be triggered while a message box is open.
refresh_packages(src_exists, t) ==
    /\ stack = <<>> /\ g_pc = "idle" /\ NoBox
    /\ IF Precondition(src_exists) THEN Rescan(t) ELSE Refused
    /\ UNCHANGED <<viewVars, auxVars>>

\* The boxes for which isChecked() holds.
Checked(boxes) == { n \in DOMAIN boxes : boxes[n] }

\* select_workspace: the dialog returns dir_path ("" when cancelled);
\* src_exists tells whether it has a src directory, t is the tree that
\* holds.  workspace_root is assigned first, then refresh_packages runs.
\* When it completes, save_config stores the boxes that are checked
\* afterwards; when an exception leaves it, save_config is not reached;
\* when the directory has no src, refresh_packages opens its warning box
\* and the handler waits in the event loop of that box.
select_workspace(dir_path, src_exists, t) ==
    /\ stack = <<>> /\ g_pc = "idle" /\ NoBox
    /\ IF dir_path = ""
       THEN UNCHANGED <<graphVars, package_checkboxes, config, event, topCalls, rootVars>>
       ELSE /\ workspace_root' = dir_path
            /\ event' = [kind |-> "workspace", pkg |-> None]
            /\ topCalls' = 0
            /\ UNCHANGED buildVars
            /\ IF src_exists
               THEN /\ \E r \in {Scan(t, package_dependencies, reverse_dependencies)} :
                          /\ package_dependencies' = r.fwd
                          /\ reverse_dependencies' = r.rev
                          /\ package_checkboxes' =
                                BoxesAfter(r, package_checkboxes, config)
                          /\ config' = IF r.raised THEN config
                                       ELSE Checked(package_checkboxes')
                    /\ tree' = t
                    /\ listed_root' = dir_path
                    /\ ws_pc' = "idle"
               ELSE /\ ws_pc' = "box"
                    /\ UNCHANGED <<graphVars, package_checkboxes, config, listed_root>>
    /\ UNCHANGED <<stack, chains, processed, events, viewVars, auxVars>>

\* The warning box of refresh_packages is closed: select_workspace goes on
\* with save_config.  The box is below every message box that was opened
\* in its event loop, and is closed after them.
select_workspace_save ==
    /\ ws_pc = "box" /\ msg_boxes = <<>>
    /\ ws_pc' = "idle"
    /\ config' = Checked(package_checkboxes)
    /\ UNCHANGED <<graphVars, package_checkboxes, selVars, viewVars, auxVars,
                   workspace_root, listed_root, buildVars>>

\* The processes whose finished signal can be pending at a time, besides
\* self.build_process.
MaxOrphans == 1

\* The outcomes of start() and waitForStarted(3000): the process runs; it
\* could not be started; or the wait ran out with the process still
\* starting.
Outcomes == {"started", "failed", "timeout"}

\* build_package, the slot of the build button (disabled while
\* _set_building_ui_state(True) holds).  Without a workspace or a checked
\* package it warns and returns.  Otherwise it disables the controls,
\* replaces self.build_process by a new process and starts it; a process
\* it replaces while it runs keeps its connection to _on_build_finished.
\* When the process could not be started, _on_build_error and the last
\* lines enable the controls again and no finished signal comes; when the
\* wait ran out, the last lines enable the controls while the process goes
\* on.
build_package(outcome) ==
    /\ stack = <<>> /\ g_pc = "idle" /\ NoBox /\ ~ui_building
    /\ IF workspace_root # None /\ Checked(package_checkboxes) # {}
       THEN /\ orphans + (IF building THEN 1 ELSE 0) <= MaxOrphans
            /\ orphans' = orphans + (IF building THEN 1 ELSE 0)
            /\ building' = (outcome # "failed")
            /\ ui_building' = (outcome = "started")
            /\ UNCHANGED msg_boxes
       ELSE UNCHANGED buildVars
    /\ UNCHANGED <<graphVars, package_checkboxes, config, selVars, viewVars, auxVars,
                   workspace_root, listed_root, ws_pc>>

\* The open message boxes of the given kind: "info" (the information box
\* of _on_build_finished, save_config to come), "error_own" and
\* "error_orphan" (the box of _on_build_error for a process that died, its
\* finished signal to come).
Boxes(kind) == Cardinality({ i \in DOMAIN msg_boxes : msg_boxes[i] = kind })

\* A process runs and has not been found dead: self.build_process (own),
\* or one that build_package has replaced.
Alive(own) ==
    IF own THEN building /\ Boxes("error_own") = 0
    ELSE orphans > Boxes("error_orphan")

\* That process is no longer running.
Ended(own) ==
    IF own THEN building' = FALSE /\ UNCHANGED orphans
    ELSE orphans' = orphans - 1 /\ UNCHANGED building

\* The body of _on_build_finished(code, status) with the message boxes
\* open: the controls are enabled; after exit code 0 an information box
\* opens, and save_config follows when it is closed.  (The critical box
\* after another code has nothing after it.)
Finished(code, open) ==
    /\ ui_building' = FALSE
    /\ msg_boxes' = IF code = 0 THEN Append(open, "info") ELSE open

\* _on_build_finished(code, status) up to its message box, for a process
\* that exits.  The finished signal is delivered by whatever event loop
\* runs, that of an open message box or of the graph dialog included.
on_build_finished(code, own) ==
    /\ stack = <<>> /\ g_pc # "loop"
    /\ Alive(own)
    /\ Ended(own)
    /\ Finished(code, msg_boxes)
    /\ UNCHANGED <<graphVars, package_checkboxes, config, selVars, viewVars, auxVars,
                   workspace_root, listed_root, ws_pc>>

\* The information box of _on_build_finished is closed: save_config.
on_build_finished_save ==
    /\ msg_boxes # <<>> /\ Last(msg_boxes) = "info"
    /\ msg_boxes' = Front(msg_boxes)
    /\ config' = Checked(package_checkboxes)
    /\ UNCHANGED <<graphVars, package_checkboxes, selVars, viewVars, auxVars,
                   workspace_root, listed_root, ws_pc, building, ui_building, orphans>>

\* The box _on_build_error opens for a process that died of a signal: the
\* errorOccurred signal comes before the process is marked as not running
\* and before its finished signal.
ErrorBox(own) == IF own THEN "error_own" ELSE "error_orphan"

\* _on_build_error(err) up to its message box, for a process that crashed
\* or was killed: the controls are enabled, the box opens.
on_build_error(own) ==
    /\ stack = <<>> /\ g_pc # "loop"
    /\ Alive(own)
    /\ ui_building' = FALSE
    /\ msg_boxes' = Append(msg_boxes, ErrorBox(own))
    /\ UNCHANGED <<graphVars, package_checkboxes, config, selVars, viewVars, auxVars,
                   workspace_root, listed_root, ws_pc, building, orphans>>

\* The box of _on_build_error is closed: the process is marked as not
\* running and its finished signal runs _on_build_finished, with the exit
\* code of a process that died of a signal, which is not 0.
on_build_error_closed ==
    /\ msg_boxes # <<>> /\ Last(msg_boxes) \in {"error_own", "error_orphan"}
    /\ Ended(Last(msg_boxes) = "error_own")
    /\ Finished(1, Front(msg_boxes))
    /\ UNCHANGED <<graphVars, package_checkboxes, config, selVars, viewVars, auxVars,
                   workspace_root, listed_root, ws_pc>>

\* stop_build, the slot of act_stop (enabled while
\* _set_building_ui_state(True) holds): without a running process it does
\* nothing.  Otherwise kill() and waitForFinished(1000).  reaped tells
\* whether the process ends within the wait: then _on_build_error runs
\* inside the wait when it died of the kill (crashed), and
\* _on_build_finished(code, status) when it had exited before.  If not
\* reaped, stop_build returns with the process still running.  In every
\* case the controls are enabled.
stop_build(reaped, crashed, code) ==
    /\ stack = <<>> /\ g_pc = "idle" /\ NoBox /\ ui_building
    /\ IF ~building
       THEN UNCHANGED <<building, ui_building, msg_boxes>>
       ELSE IF ~reaped
       THEN ui_building' = FALSE /\ UNCHANGED <<building, msg_boxes>>
       ELSE IF crashed
       THEN /\ ui_building' = FALSE
            /\ msg_boxes' = Append(msg_boxes, ErrorBox(TRUE))
            /\ UNCHANGED building
       ELSE building' = FALSE /\ Finished(code, msg_boxes)
    /\ UNCHANGED <<graphVars, package_checkboxes, config, selVars, viewVars, auxVars,
                   workspace_root, listed_root, ws_pc, orphans>>

\* save_config: last_selected_packages := the checked packages.
save_config ==
    /\ stack = <<>> /\ g_pc = "idle" /\ NoBox
    /\ config' = { n \in DOMAIN package_checkboxes : package_checkboxes[n] }
    /\ event' = NoEvent
    /\ topCalls' = 0
    /\ UNCHANGED <<package_dependencies, reverse_dependencies, package_checkboxes,
                   tree, stack, chains, processed, viewVars, events, auxVars, rootVars>>

\* ------------------------------------------------------------------------
\* Checkboxes, the change handler and the propagation call stack
\* ------------------------------------------------------------------------
\* A frame is an active call: fn is the function, pkg its package_name, pc is
\* "enter" before the visited test and "loop" inside the for loop, todo holds
\* the elements the loop has still to visit, root marks a top-level call (the
\* one that created the visited set).  Between two steps of the model the
\* innermost call is always inside a loop with elements left: a step is one
\* loop iteration together with the calls, signal handlers and returns that
\* follow it up to the next iteration.

ZeroCount == [n \in Pkgs |-> 0]

\* QCheckBox.setChecked(v): the new checkbox states.
SetChecked(boxes, p, v) == [boxes EXCEPT ![p] = v]

\* QCheckBox.setChecked(v) emits stateChanged only when the state changes.
Emits(boxes, p, v) == boxes[p] # v

\* A handler that selects whatever the checkbox shows.
on_package_checkbox_changed_select(boxes, p) ==
    [fn |-> "select", pkg |-> p, pc |-> "enter", root |-> TRUE, todo |-> {}]

\* on_package_checkbox_changed(p) as called by the signal: it reads the
\* checkbox and makes a top-level call (visited=None) of select_dependencies or
\* deselect_dependent_packages.
on_package_checkbox_changed(boxes, p) ==
    [fn   |-> IF boxes[p] THEN "select" ELSE "deselect",
     pkg  |-> p, pc |-> "enter", root |-> TRUE, todo |-> {}]

\* A nested call select_dependencies(dep, visited) /
\* deselect_dependent_packages(dep, visited).
Call(fn, p) == [fn |-> fn, pkg |-> p, pc |-> "enter", root |-> FALSE, todo |-> {}]

\* The machine after stateChanged was (not) emitted for p: the handler's
\* top-level call on top of the stack, with a fresh visited set.
Signal(m, emitted, p) ==
    IF emitted
    THEN [m EXCEPT !.stack = Append(@, on_package_checkbox_changed(m.boxes, p)),
                   !.chains = Append(@, {}),
                   !.processed = Append(@, ZeroCount),
                   !.calls = @ + 1]
    ELSE m

\* select_dependencies looping over the dependents instead of the dependencies.
SelectTargets_Reverse(p) == Get(reverse_dependencies, p)

\* The iteration set of the loop in select_dependencies.
SelectTargets(p) == Get(package_dependencies, p)

\* deselect_dependent_packages looping over the dependencies instead of the
\* dependents.
DeselectTargets_Forward(p) == Get(package_dependencies, p)

\* The iteration set of the loop in deselect_dependent_packages.
DeselectTargets(p) == Get(reverse_dependencies, p)

\* A propagation that never marks a package visited.
Mark_Forgotten(visited, p) == visited

\* visited.add(package_name)
Mark(visited, p) == visited \cup {p}

\* The innermost call returns; the visited set of a top-level call dies with it.
ReturnTop(m) ==
    [m EXCEPT !.stack = Front(@),
              !.chains = IF Last(m.stack).root THEN Front(@) ELSE @,
              !.processed = IF Last(m.stack).root THEN Front(@) ELSE @]

\* The innermost call passes the visited test: visited.add(package_name).
Enter(m, targets) ==
    LET f == Last(m.stack)
        k == Len(m.chains)
    IN  [m EXCEPT !.stack = Front(@) \o <<[f EXCEPT !.pc = "loop", !.todo = targets]>>,
                  !.chains = [@ EXCEPT ![k] = Mark(@, f.pkg)],
                  !.processed = [@ EXCEPT ![k][f.pkg] = @ + 1]]

\* Entry of select_dependencies(package_name, visited): the visited test, the
\* mark and setChecked(True), whose signal runs the handler before the loop.
select_dependencies(m) ==
    LET p == Last(m.stack).pkg IN
    IF p \in Last(m.chains) THEN ReturnTop(m)
    ELSE LET e == Enter(m, SelectTargets(p)) IN
         IF p \in DOMAIN m.boxes
         THEN Signal([e EXCEPT !.boxes = SetChecked(@, p, TRUE)],
                     Emits(m.boxes, p, TRUE), p)
         ELSE e

\* Entry of deselect_dependent_packages(package_name, visited): the visited
\* test and the mark.
deselect_dependent_packages(m) ==
    LET p == Last(m.stack).pkg IN
    IF p \in Last(m.chains) THEN ReturnTop(m)
    ELSE Enter(m, DeselectTargets(p))

\* Runs the machine up to the next loop iteration: calls are entered, loops
\* without elements left return.
RECURSIVE Run(_)
Run(m) ==
    IF m.stack = <<>> THEN m
    ELSE LET f == Last(m.stack) IN
         IF f.pc = "enter"
         THEN Run(IF f.fn = "select" THEN select_dependencies(m)
                                     ELSE deselect_dependent_packages(m))
         ELSE IF f.todo = {} THEN Run(ReturnTop(m))
         ELSE m

Machine == [stack |-> stack, chains |-> chains, processed |-> processed,
            boxes |-> package_checkboxes, calls |-> topCalls]

\* The next state of the machine is Run(m).
Becomes(m) ==
    \E r \in {Run(m)} :
        /\ stack' = r.stack
        /\ chains' = r.chains
        /\ processed' = r.processed
        /\ package_checkboxes' = r.boxes
        /\ topCalls' = r.calls

\* The user clicks the checkbox of p: the state flips and the handler runs.
UserToggle(p) ==
    /\ stack = <<>> /\ g_pc = "idle" /\ NoBox /\ ~ui_building /\ events < MaxEvents
    /\ events' = events + 1
    /\ p \in DOMAIN package_checkboxes
    /\ LET v == ~package_checkboxes[p] IN
          /\ event' = [kind |-> IF v THEN "check" ELSE "uncheck", pkg |-> p]
          /\ Becomes(Signal([Machine EXCEPT !.boxes = SetChecked(@, p, v), !.calls = 0],
                            TRUE, p))
    /\ UNCHANGED <<graphVars, config, viewVars, auxVars, rootVars>>

\* select_all_packages / deselect_all_packages: the loop over the checkboxes.
SetAll(v) ==
    /\ stack = <<>> /\ g_pc = "idle" /\ NoBox /\ events < MaxEvents
    /\ events' = events + 1
    /\ event' = [kind |-> IF v THEN "select_all" ELSE "deselect_all", pkg |-> None]
    /\ Becomes([Machine EXCEPT
                  !.stack = <<[fn |-> IF v THEN "select_all" ELSE "deselect_all",
                               pkg |-> None, pc |-> "loop", root |-> FALSE,
                               todo |-> DOMAIN package_checkboxes]>>,
                  !.calls = 0])
    /\ UNCHANGED <<graphVars, config, viewVars, auxVars, rootVars>>

select_all_packages == SetAll(TRUE)

deselect_all_packages == SetAll(FALSE)

\* The next checkbox of package_checkboxes.values(): the dict was filled in
\* sorted order of the names.
NextBox(todo) == CHOOSE p \in todo : \A q \in todo : Rank[p] <= Rank[q]

\* The innermost loop with element x taken out of its iteration set.
Taken(m, x) ==
    [m EXCEPT !.stack = Front(@) \o <<[Last(m.stack) EXCEPT !.todo = @ \ {x}]>>]

Busy == stack # <<>> /\ Len(stack) < MaxStack

\* One iteration of the loop of select_all_packages / deselect_all_packages:
\* checkbox.setChecked(v).
SetAllLoop ==
    /\ Busy
    /\ Last(stack).fn \in {"select_all", "deselect_all"}
    /\ LET v == (Last(stack).fn = "select_all")
           p == NextBox(Last(stack).todo)
           t == Taken(Machine, p)
       IN  Becomes(Signal([t EXCEPT !.boxes = SetChecked(@, p, v)],
                          Emits(package_checkboxes, p, v), p))
    /\ UNCHANGED <<graphVars, config, event, viewVars, events, auxVars, rootVars>>

\* One iteration of the loop of select_dependencies: the recursive call.
SelectLoop ==
    /\ Busy
    /\ Last(stack).fn = "select"
    /\ \E dep \in Last(stack).todo :
          LET t == Taken(Machine, dep) IN
          Becomes([t EXCEPT !.stack = Append(@, Call("select", dep))])
    /\ UNCHANGED <<graphVars, config, event, viewVars, events, auxVars, rootVars>>

\* One iteration of the loop of deselect_dependent_packages: setChecked(False),
\* whose signal runs the handler first, then the recursive call.
DeselectLoop ==
    /\ Busy
    /\ Last(stack).fn = "deselect"
    /\ \E dep \in Last(stack).todo :
          LET t == Taken(Machine, dep) IN
          IF dep \in DOMAIN package_checkboxes
          THEN Becomes(Signal([t EXCEPT !.boxes = SetChecked(@, dep, FALSE),
                                        !.stack = Append(@, Call("deselect", dep))],
                              Emits(package_checkboxes, dep, FALSE), dep))
          ELSE Becomes(t)
    /\ UNCHANGED <<graphVars, config, event, viewVars, events, auxVars, rootVars>>

\* The steps of a propagation in progress.
Step ==
    \/ SetAllLoop
    \/ SelectLoop
    \/ DeselectLoop

\* ------------------------------------------------------------------------
\* The closure of show_dependency_graph
\* ------------------------------------------------------------------------

\* No dependency graph dialog is open.
ViewClosed ==
    /\ g_pc = "idle"
    /\ g_seeds = <<>>
    /\ g_nodes = {}
    /\ g_stack = <<>>
    /\ g_expanded = ZeroCount
    /\ g_edges = {}

\* The elements of S as a list in sorted order.
RECURSIVE Sorted(_)
Sorted(S) ==
    IF S = {} THEN <<>>
    ELSE LET p == NextBox(S) IN <<p>> \o Sorted(S \ {p})

\* [pkg for pkg, cb in self.package_checkboxes.items() if cb.isChecked()]:
\* the dict is in sorted order of the names.
SelectedList(boxes) == Sorted({ p \in DOMAIN boxes : boxes[p] })

\* The orders in which a for loop may visit the elements of the set S.
Orders(S) ==
    { o \in [1..Cardinality(S) -> S] : \A i, j \in DOMAIN o : o[i] = o[j] => i = j }

\* A while loop without the `if p in nodes` test.
Skip_Never(p, nodes) == FALSE

\* `if p in nodes: continue`
Skip(p, nodes) == p \in nodes

\* The dependencies the for loop appends to the stack: `if d not in nodes`,
\* tested after nodes.add(p).
Appended(deps, p, nodes) == Get(deps, p) \ (nodes \cup {p})

\* A loop body that also adds the dependencies it appends, so that they are
\* skipped when popped.
Added_WithDeps(deps, p, nodes) == nodes \cup {p} \cup Get(deps, p)

\* The nodes after the loop body for p: nodes.add(p).
Added(deps, p, nodes) == nodes \cup {p}

\* The start of the closure for the checkboxes boxes: the while loop is
\* seeded with the selected packages; without a selection the nodes are all
\* packages.
StartClosure(boxes) ==
    LET selected == SelectedList(boxes) IN
    /\ g_seeds' = selected
    /\ g_stack' = selected
    /\ g_nodes' = IF selected # <<>> THEN {} ELSE DOMAIN boxes
    /\ g_pc' = IF selected # <<>> THEN "loop" ELSE "done"
    /\ g_expanded' = ZeroCount

\* A subgraph whose edges point from the dependency to the package.
InducedEdges_Reversed(nodes, deps) ==
    UNION { { <<dep, src>> : dep \in { d \in Get(deps, src) : d \in nodes } } :
            src \in nodes }

\* The edges of the subgraph: `for src in nodes: for dep in
\* package_dependencies.get(src, set()): if dep in nodes`.  The list holds
\* no pair twice; its order plays no role afterwards.
InducedEdges(nodes, deps) ==
    UNION { { <<src, dep>> : dep \in { d \in Get(deps, src) : d \in nodes } } :
            src \in nodes }

\* The edges when the dialog opens without running the while loop.
EdgesAtStart(boxes, deps) ==
    IF SelectedList(boxes) # <<>> THEN {} ELSE InducedEdges(DOMAIN boxes, deps)

\* ------------------------------------------------------------------------
\* The scene of the dependency graph dialog: layering and layout
\* (_build_dependency_scene)
\* ------------------------------------------------------------------------

\* No mouse press has been served in this scene.
NoPress == [node |-> None, button |-> None, ctrl |-> FALSE, rctrl |-> FALSE,
            grab |-> FALSE, prev |-> {}]

\* No dialog is open.
SceneClosed ==
    /\ sc_pc = "closed"
    /\ scene_nodes = {}
    /\ scene_edges = {}
    /\ levels = <<>>
    /\ pos = EmptyMap
    /\ node_items = EmptyMap
    /\ edge_items = EmptyMap
    /\ pressed = NoPress

\* deps_map: every node with the destinations of its edges.
DepsMap(nodes, edges) ==
    [n \in nodes |-> { e[2] : e \in { f \in edges : f[1] = n } }]

\* A count that stops at the first source, so that a node is promoted as
\* soon as one of its sources is placed.
InDegree_One(nodes, deps_map) ==
    [n \in nodes |-> Cardinality({n} \cap UNION { deps_map[s] : s \in nodes })]

\* indeg: for every node, the number of nodes that have it in their deps_map.
InDegree(nodes, deps_map) ==
    [n \in nodes |-> Cardinality({ s \in nodes : n \in deps_map[s] })]

\* `for v in deps_map[u]`, visiting the elements in the order of the list vs:
\* indeg[v] -= 1, and v joins next_level when its count reaches zero.
RECURSIVE Relax(_, _, _)
Relax(vs, indeg, next_level) ==
    IF vs = <<>> THEN [indeg |-> indeg, next_level |-> next_level]
    ELSE LET v == Head(vs)
             d == indeg[v] - 1
         IN  Relax(Tail(vs), [n \in DOMAIN indeg |-> IF n = v THEN d ELSE indeg[n]],
                   IF d = 0 THEN Append(next_level, v) ELSE next_level)

\* `for u in current`, from position k on.  A set yields its elements in an
\* order the language does not fix, so the result is the set of outcomes
\* over every order of every deps_map[u].
RECURSIVE Drain(_, _, _, _, _, _)
Drain(current, k, deps_map, indeg, seen, next_level) ==
    IF k > Len(current)
    THEN {[indeg |-> indeg, seen |-> seen, next_level |-> next_level]}
    ELSE LET u == current[k] IN
         UNION { UNION { Drain(current, k + 1, deps_map, r.indeg, seen \cup {u}, r.next_level) :
                            r \in {Relax(vs, indeg, next_level)} } :
                 vs \in Orders(deps_map[u]) }

\* `while current`: the outcomes [levels, seen] of the loop.
RECURSIVE LevelLoop(_, _, _, _, _)
LevelLoop(current, deps_map, indeg, seen, lv) ==
    IF current = <<>> THEN {[levels |-> lv, seen |-> seen]}
    ELSE UNION { LevelLoop(r.next_level, deps_map, r.indeg, r.seen, Append(lv, current)) :
                 r \in Drain(current, 1, deps_map, indeg, seen, <<>>) }

\* A layering that forgets the nodes the loop never reached.
Remain_Dropped(nodes, seen) == {}

\* A layering that ends with a layer of all nodes.
Remain_All(nodes, seen) == nodes

\* remain: the nodes the loop never reached.
Remain(nodes, seen) == { n \in nodes : n \notin seen }

\* The layering of _build_dependency_scene: every value levels may end with.
Levels(nodes, edges) ==
    LET deps_map == DepsMap(nodes, edges)
        indeg == InDegree(nodes, deps_map)
        looped == UNION { LevelLoop(current, deps_map, indeg, {}, <<>>) :
                          current \in Orders({ n \in nodes : indeg[n] = 0 }) }
    IN  UNION { { IF remain = <<>> THEN r.levels ELSE Append(r.levels, remain) :
                     remain \in Orders(Remain(nodes, r.seen)) } :
                r \in looped }

X_SPACING == 240

Y_SPACING == 80

\* A layout that keeps the order the layer list happens to have.
sorted_AsIs(layer) == layer

\* sorted(layer)
RECURSIVE sorted(_)
sorted(layer) ==
    IF layer = <<>> THEN <<>>
    ELSE LET i == CHOOSE i \in DOMAIN layer :
                     \A j \in DOMAIN layer :
                        \/ Rank[layer[i]] < Rank[layer[j]]
                        \/ (Rank[layer[i]] = Rank[layer[j]] /\ i <= j)
         IN  <<layer[i]>> \o
             sorted(SubSeq(layer, 1, i - 1) \o SubSeq(layer, i + 1, Len(layer)))

\* A layout that puts every node of a layer at the top of its column.
PlaceLayer_Stacked(p, i, ordered, j) ==
    [n \in (DOMAIN p) \cup { ordered[k] : k \in DOMAIN ordered } |->
        IF \E k \in DOMAIN ordered : ordered[k] = n
        THEN <<(i - 1) * X_SPACING, 0>> ELSE p[n]]

\* `for j, n in enumerate(ordered)`, from the (j-1)th element on, in the
\* layer enumerate numbers i-1.
RECURSIVE PlaceLayer(_, _, _, _)
PlaceLayer(p, i, ordered, j) ==
    IF j > Len(ordered) THEN p
    ELSE PlaceLayer(Put(p, ordered[j], <<(i - 1) * X_SPACING, (j - 1) * Y_SPACING>>),
                    i, ordered, j + 1)

\* `for i, layer in enumerate(levels)`, from the (i-1)th layer on.
RECURSIVE Place(_, _, _)
Place(p, lv, i) ==
    IF i > Len(lv) THEN p
    ELSE Place(PlaceLayer(p, i, sorted(lv[i]), 1), lv, i + 1)

\* pos
Layout(lv) == Place(EmptyMap, lv, 1)

\* _build_dependency_scene(nodes, edges, selected_set): the scene of a newly
\* opened dialog.  No node is selected or highlighted, every edge whose two
\* ends have a node item is drawn in the default colour.
build_dependency_scene(nodes, edges) ==
    /\ \E lv \in Levels(nodes, edges) :
          /\ levels' = lv
          /\ \E p \in {Layout(lv)} :
                /\ pos' = p
                /\ node_items' = [n \in DOMAIN p |->
                                    [isSelected |-> FALSE, highlight_type |-> None]]
                /\ edge_items' = [e \in { f \in edges : f[1] \in DOMAIN p /\ f[2] \in DOMAIN p }
                                    |-> "default"]
    /\ scene_nodes' = nodes
    /\ scene_edges' = edges
    /\ sc_pc' = "open"
    /\ pressed' = NoPress

\* The scene is gone with its dialog.
SceneGone ==
    /\ sc_pc' = "closed"
    /\ scene_nodes' = {}
    /\ scene_edges' = {}
    /\ levels' = <<>>
    /\ pos' = EmptyMap
    /\ node_items' = EmptyMap
    /\ edge_items' = EmptyMap
    /\ pressed' = NoPress

\* ------------------------------------------------------------------------
\* The dependency graph dialog (show_dependency_graph)
\* ------------------------------------------------------------------------

\* show_dependency_graph from line 919 on, up to the while loop, and up to
\* dlg.exec_() when nothing is selected: then the loop is not run, the
\* edges are collected, the scene is built and the dialog opens.
OpenGraph(boxes, deps) ==
    /\ StartClosure(boxes)
    /\ g_edges' = EdgesAtStart(boxes, deps)
    /\ IF g_pc' = "done"
       THEN build_dependency_scene(g_nodes', g_edges')
       ELSE UNCHANGED sceneVars

\* show_dependency_graph, the slot of the toolbar action.  It calls
\* refresh_packages first when package_dependencies is empty: src_exists
\* tells whether workspace_root has a src directory, t is the tree it
\* holds.  An exception that leaves the refresh is swallowed.  A refresh
\* that fails one of its tests opens its warning box, and the handler waits
\* in the event loop of that box before it goes on.
show_dependency_graph(src_exists, t) ==
    /\ stack = <<>> /\ g_pc = "idle" /\ NoBox
    /\ IF package_dependencies # EmptyMap
       THEN /\ OpenGraph(package_checkboxes, package_dependencies)
            /\ UNCHANGED <<graphVars, package_checkboxes, config, selVars, rootVars>>
       ELSE IF Precondition(src_exists)
       THEN /\ Rescan(t)
            /\ OpenGraph(package_checkboxes', package_dependencies')
       ELSE /\ g_pc' = "box"
            /\ UNCHANGED <<g_seeds, g_nodes, g_stack, g_expanded, g_edges>>
            /\ UNCHANGED <<graphVars, package_checkboxes, config, selVars, rootVars,
                           sceneVars>>
    /\ UNCHANGED parseVars

\* The warning box of the refresh is closed (after every message box that
\* was opened in its event loop): show_dependency_graph goes on.
show_dependency_graph_open ==
    /\ g_pc = "box" /\ msg_boxes = <<>>
    /\ OpenGraph(package_checkboxes, package_dependencies)
    /\ UNCHANGED <<graphVars, package_checkboxes, config, selVars, rootVars, parseVars>>

\* One iteration of `while stack`: pop, test, add, append the dependencies
\* in the order the set yields them.
ClosureLoop ==
    /\ g_pc = "loop" /\ g_stack # <<>>
    /\ LET p == Last(g_stack)
           rest == Front(g_stack)
       IN  IF Skip(p, g_nodes)
           THEN /\ g_stack' = rest
                /\ UNCHANGED <<g_nodes, g_expanded>>
           ELSE /\ g_nodes' = Added(package_dependencies, p, g_nodes)
                /\ g_expanded' = [g_expanded EXCEPT ![p] = @ + 1]
                /\ \E o \in Orders(Appended(package_dependencies, p, g_nodes)) :
                      g_stack' = rest \o o
    /\ UNCHANGED <<g_pc, g_seeds, g_edges>>
    /\ UNCHANGED <<graphVars, package_checkboxes, config, selVars, auxVars, rootVars>>

\* The while loop ends on the empty stack: the edges of the subgraph are
\* collected, the scene is built and the dialog opens.
ClosureDone ==
    /\ g_pc = "loop" /\ g_stack = <<>>
    /\ g_pc' = "done"
    /\ g_edges' = InducedEdges(g_nodes, package_dependencies)
    /\ build_dependency_scene(g_nodes, g_edges')
    /\ UNCHANGED <<g_seeds, g_nodes, g_stack, g_expanded>>
    /\ UNCHANGED <<graphVars, package_checkboxes, config, selVars, parseVars, rootVars>>

\* The dialog is closed (dlg.exec_() returns).
CloseGraph ==
    /\ g_pc = "done" /\ ~pressed.grab /\ NoBox
    /\ g_pc' = "idle"
    /\ g_seeds' = <<>>
    /\ g_nodes' = {}
    /\ g_stack' = <<>>
    /\ g_expanded' = ZeroCount
    /\ g_edges' = {}
    /\ SceneGone
    /\ UNCHANGED <<graphVars, package_checkboxes, config, selVars, parseVars, rootVars>>


\* ------------------------------------------------------------------------
\* Node clicks and highlights (ClickableNodeItem, DependencyGraphScene)
\* ------------------------------------------------------------------------

\* The names of the items for which isSelected() holds.
SelectedNodes(items) == { n \in DOMAIN items : items[n].isSelected }

\* A classification that tests the outgoing set before the incoming set.
Tag_OutgoingFirst(package_name, selected_nodes, incoming_nodes, outgoing_nodes) ==
    IF package_name \in selected_nodes THEN None
    ELSE IF package_name \in outgoing_nodes THEN "outgoing"
    ELSE IF package_name \in incoming_nodes THEN "incoming"
    ELSE None

\* The if / elif chain of update_node_highlights for one node item.
Tag(package_name, selected_nodes, incoming_nodes, outgoing_nodes) ==
    IF package_name \in selected_nodes THEN None
    ELSE IF package_name \in incoming_nodes THEN "incoming"
    ELSE IF package_name \in outgoing_nodes THEN "outgoing"
    ELSE None

\* The if / elif chain of _update_edge_colors for one edge item.
EdgeColor(e, selected_node, incoming_nodes, outgoing_nodes) ==
    IF e[2] = selected_node /\ e[1] \in incoming_nodes THEN "yellow"
    ELSE IF e[1] = selected_node /\ e[2] \in outgoing_nodes THEN "red"
    ELSE "default"

\* _reset_edge_colors
reset_edge_colors(eitems) == [e \in DOMAIN eitems |-> "default"]

\* update_node_highlights: the node and edge items it may leave.  With
\* several selected nodes list(selected_nodes)[0] is any of them.
update_node_highlights(items, edges, eitems) ==
    LET selected_nodes == SelectedNodes(items) IN
    IF selected_nodes = {}
    THEN {[node_items |-> [n \in DOMAIN items |-> [items[n] EXCEPT !.highlight_type = None]],
           edge_items |-> reset_edge_colors(eitems)]}
    ELSE { LET incoming_nodes == { e[1] : e \in { f \in edges : f[2] = selected_node } }
               outgoing_nodes == { e[2] : e \in { f \in edges : f[1] = selected_node } }
           IN  [node_items |->
                   [n \in DOMAIN items |->
                       [items[n] EXCEPT !.highlight_type =
                           Tag(n, selected_nodes, incoming_nodes, outgoing_nodes)]],
                edge_items |->
                   [e \in DOMAIN eitems |->
                       EdgeColor(e, selected_node, incoming_nodes, outgoing_nodes)]] :
           selected_node \in selected_nodes }

\* A press handler that leaves the other nodes selected.
DeselectOthers_Kept(items, self) == items

\* mousePressEvent, first loop: every other selected node is deselected.
DeselectOthers(items, self) ==
    [n \in DOMAIN items |->
        IF n # self /\ items[n].isSelected
        THEN [items[n] EXCEPT !.isSelected = FALSE] ELSE items[n]]

\* self.setSelected(not self.isSelected())
ToggleSelected(items, self) == [items EXCEPT ![self].isSelected = ~@]

\* QGraphicsScene.clearSelection() followed by self.setSelected(True).
SelectOnly(items, self) == [n \in DOMAIN items |-> [items[n] EXCEPT !.isSelected = (n = self)]]

\* super().mousePressEvent(event): QGraphicsItem's handler for an item with
\* the ItemIsSelectable flag.  On a left press without the Control modifier
\* it selects an unselected item after clearing the scene's selection; it
\* runs no update_node_highlights.
SuperPress(items, self, button, ctrl) ==
    IF button = "left" /\ ~ctrl /\ ~items[self].isSelected
    THEN SelectOnly(items, self) ELSE items

\* mousePressEvent of the node item self.
mousePressEvent(self, button, ctrl) ==
    /\ sc_pc = "open" /\ ~pressed.grab /\ NoBox
    /\ self \in DOMAIN node_items
    /\ IF button = "left"
       THEN \E r \in update_node_highlights(
                        ToggleSelected(DeselectOthers(node_items, self), self),
                        scene_edges, edge_items) :
               /\ node_items' = SuperPress(r.node_items, self, button, ctrl)
               /\ edge_items' = r.edge_items
       ELSE UNCHANGED <<node_items, edge_items>>
    /\ pressed' = [node |-> self, button |-> button, ctrl |-> ctrl, rctrl |-> FALSE,
                   grab |-> (button = "left"), prev |-> SelectedNodes(node_items)]
    /\ UNCHANGED <<sc_pc, scene_nodes, scene_edges, levels, pos>>
    /\ UNCHANGED <<graphVars, package_checkboxes, config, selVars, viewVars, parseVars, rootVars>>

\* The release that ends a left click: the class does not override
\* mouseReleaseEvent, so QGraphicsItem's handler for an ItemIsSelectable
\* item runs.  When the mouse did not move, it toggles the item when the
\* release event carries the Control modifier (ctrl) and otherwise makes it
\* the only selected item.
mouseReleaseEvent(moved, ctrl) ==
    /\ sc_pc = "open" /\ pressed.grab /\ NoBox
    /\ node_items' = IF moved THEN node_items
                     ELSE IF ctrl THEN ToggleSelected(node_items, pressed.node)
                     ELSE SelectOnly(node_items, pressed.node)
    /\ pressed' = [pressed EXCEPT !.grab = FALSE, !.rctrl = ctrl]
    /\ UNCHANGED <<sc_pc, scene_nodes, scene_edges, levels, pos, edge_items>>
    /\ UNCHANGED <<graphVars, package_checkboxes, config, selVars, viewVars, parseVars, rootVars>>

\* A left click on the background of the view.  The view is in
\* ScrollHandDrag mode: no item accepts the press, and QGraphicsView's
\* release handler takes the click without a drag as a click on the scene
\* and calls scene.clearSelection().  No update_node_highlights runs.
BackgroundClick ==
    /\ sc_pc = "open" /\ ~pressed.grab /\ NoBox
    /\ node_items' = [n \in DOMAIN node_items |-> [node_items[n] EXCEPT !.isSelected = FALSE]]
    /\ pressed' = [NoPress EXCEPT !.button = "background"]
    /\ UNCHANGED <<sc_pc, scene_nodes, scene_edges, levels, pos, edge_items>>
    /\ UNCHANGED <<graphVars, package_checkboxes, config, selVars, viewVars, parseVars, rootVars>>

\* dlg.exec_() returns: the scene is gone.
CloseScene ==
    /\ sc_pc = "open" /\ ~pressed.grab /\ NoBox
    /\ SceneGone
    /\ UNCHANGED <<graphVars, package_checkboxes, config, selVars, viewVars, parseVars, rootVars>>

\* ------------------------------------------------------------------------
\* The src trees a scan may find
\* ------------------------------------------------------------------------

\* The manifest named name that declares the identifiers of d in sorted
\* order, each under a dependency kind of its own.
Manifest(name, d) ==
    [xml |-> TRUE, parses |-> TRUE, raises |-> FALSE, name |-> name,
     elems |-> SelectSeq(<<<<"depend", "a">>, <<"build_depend", "b">>,
                           <<"build_export_depend", "c">>, <<"exec_depend", "x">>>>,
                         LAMBDA e : e[2] \in d)]

\* A package.xml that parses and has no <name>, with a dependency.
NoNameXml ==
    [xml |-> TRUE, parses |-> TRUE, raises |-> FALSE, name |-> None, elems |-> <<<<"depend", "a">>>>]

\* The package each directory holds in the selection specification.
PkgOfDir == <<"a", "b", "c">>

DepSets(ids) == { d \in SUBSET ids : Cardinality(d) <= MaxDeps }

\* Selection specification: directory i is empty or holds the manifest of
\* PkgOfDir[i], which depends on packages of the workspace (itself included).
SimpleEntries(i) ==
    {NoXml} \cup { Manifest(PkgOfDir[i], d) : d \in DepSets(Pkgs) }

\* Scan specification: a directory may hold an unparsable manifest, one on
\* which the parser raises, or one that repeats the name of an earlier directory, with dependencies on
\* identifiers that are no package of the workspace.  Up to renaming the
\* packages, the first directory that declares a new name declares the next
\* unused one of PkgOfDir.
RichEntries(i) ==
    {NoXml, BadXml, NoNameXml, RaisingXml}
      \cup { Manifest(PkgOfDir[j], d) :
                j \in 1..i, d \in DepSets(Ids) }

EmptyTree == [i \in DirIdx |-> NoXml]

SimpleTrees == { t \in [DirIdx -> UNION { SimpleEntries(i) : i \in DirIdx }] :
                    \A i \in DirIdx : t[i] \in SimpleEntries(i) }

\* The trees that differ from t in at most MaxEdits directories.
Edited(t, Entries) ==
    UNION { { [i \in DirIdx |-> IF i \in D THEN f[i] ELSE t[i]] :
                f \in { g \in [D -> UNION { Entries[i] : i \in D }] :
                          \A i \in D : g[i] \in Entries[i] } } :
            D \in { E \in SUBSET DirIdx : Cardinality(E) <= MaxEdits } }

\* ------------------------------------------------------------------------
\* Specifications
\* ------------------------------------------------------------------------

\* The state __init__ leaves with the configuration cfg and no workspace.
Constructed(cfg) ==
    /\ package_dependencies = EmptyMap
    /\ reverse_dependencies = EmptyMap
    /\ package_checkboxes = EmptyMap
    /\ config = cfg
    /\ tree = EmptyTree
    /\ stack = <<>>
    /\ chains = <<>>
    /\ processed = <<>>
    /\ event = NoEvent
    /\ topCalls = 0
    /\ events = 0
    /\ workspace_root = None
    /\ listed_root = None
    /\ ws_pc = "idle"
    /\ building = FALSE
    /\ ui_building = FALSE
    /\ orphans = 0
    /\ msg_boxes = <<>>
    /\ ViewClosed
    /\ SceneClosed
    /\ NothingParsed

\* The workspace the configuration file names.
HomeRoot == "w1"

\* The state __init__ leaves when cfg names a workspace whose src directory
\* holds the tree t: it ends with refresh_packages.  (An exception that
\* leaves the scan leaves __init__ too: no window is constructed.)
ConstructedWith(cfg, t) ==
    /\ workspace_root = HomeRoot
    /\ listed_root = HomeRoot
    /\ ws_pc = "idle"
    /\ building = FALSE
    /\ ui_building = FALSE
    /\ orphans = 0
    /\ msg_boxes = <<>>
    /\ \E r \in {Scan(t, EmptyMap, EmptyMap)} :
          /\ ~r.raised
          /\ package_dependencies = r.fwd
          /\ reverse_dependencies = r.rev
          /\ package_checkboxes = Checkboxes(r.avail, EmptyMap, cfg)
    /\ tree = t
    /\ config = cfg
    /\ stack = <<>>
    /\ chains = <<>>
    /\ processed = <<>>
    /\ event = NoEvent
    /\ topCalls = 0
    /\ events = 0
    /\ ViewClosed
    /\ SceneClosed
    /\ NothingParsed

\* The state __init__ leaves when cfg names a workspace without a src
\* directory: its refresh_packages returns at the second test.
ConstructedNoSrc(cfg) ==
    /\ workspace_root = HomeRoot
    /\ listed_root = None
    /\ ws_pc = "idle"
    /\ building = FALSE
    /\ ui_building = FALSE
    /\ orphans = 0
    /\ msg_boxes = <<>>
    /\ package_dependencies = EmptyMap
    /\ reverse_dependencies = EmptyMap
    /\ package_checkboxes = EmptyMap
    /\ config = cfg
    /\ tree = EmptyTree
    /\ stack = <<>>
    /\ chains = <<>>
    /\ processed = <<>>
    /\ event = NoEvent
    /\ topCalls = 0
    /\ events = 0
    /\ ViewClosed
    /\ SceneClosed
    /\ NothingParsed

Init ==
    \E cfg \in SUBSET Pkgs :
        \/ Constructed(cfg)
        \/ \E t \in SimpleTrees : ConstructedWith(cfg, t)

Refresh == \E t \in Edited(tree, [i \in DirIdx |-> SimpleEntries(i)]) : refresh_packages(TRUE, t)

Toggle == \E p \in Pkgs : UserToggle(p)

Next ==
    \/ Refresh
    \/ save_config
    \/ Toggle
    \/ select_all_packages
    \/ deselect_all_packages
    \/ Step

Spec == Init /\ [][Next]_vars

\* Scans only, of trees with unparsable manifests, duplicate names and
\* external dependencies, starting from the default selection in a
\* workspace whose src directory holds no package yet.
InitScan == ConstructedWith({}, EmptyTree)

RefreshRich == \E t \in Edited(tree, [i \in DirIdx |-> RichEntries(i)]) : refresh_packages(TRUE, t)

NextScan == RefreshRich

SpecScan == InitScan /\ [][NextScan]_vars

\* The dependency graph view, opened in every state the construction can leave.
ShowGraph == \E t \in Edited(tree, [i \in DirIdx |-> SimpleEntries(i)]) : show_dependency_graph(TRUE, t)

NextView ==
    \/ ShowGraph
    \/ show_dependency_graph_open
    \/ ClosureLoop
    \/ ClosureDone
    \/ CloseGraph

SpecView == Init /\ [][NextView]_vars

\* The manifests of the workspaces that are chosen: the directories of
\* RootPkgs hold no manifest or a package with at most one dependency.
RootPkgs == {"a", "b"}

RootEntries(i) ==
    IF PkgOfDir[i] \in RootPkgs
    THEN {NoXml} \cup { Manifest(PkgOfDir[i], d) :
                          d \in { e \in DepSets(RootPkgs \ {PkgOfDir[i]}) : Cardinality(e) <= 1 } }
    ELSE {NoXml}

\* Choosing workspaces, with and without a src directory, rescanning them,
\* opening the graph dialog on them, and starting and stopping builds in
\* them.
InitRoot ==
    \E cfg \in SUBSET RootPkgs :
        \/ Constructed(cfg)
        \/ ConstructedNoSrc(cfg)
        \/ \E t \in Edited(EmptyTree, [i \in DirIdx |-> RootEntries(i)]) :
              ConstructedWith(cfg, t)

\* The trees a workspace's src directory can hold: those that differ little
\* from the one scanned last.
OnDisk == Edited(tree, [i \in DirIdx |-> RootEntries(i)])

SelectWorkspace ==
    \E dir_path \in Roots \cup {""} : \E src_exists \in BOOLEAN : \E t \in OnDisk :
        select_workspace(dir_path, src_exists, t)

RefreshRoot ==
    \E src_exists \in BOOLEAN : \E t \in OnDisk : refresh_packages(src_exists, t)

ShowGraphRoot ==
    \E src_exists \in BOOLEAN : \E t \in OnDisk : show_dependency_graph(src_exists, t)

BuildPackage == \E outcome \in Outcomes : build_package(outcome)

StopBuild ==
    \E reaped \in BOOLEAN : \E crashed \in BOOLEAN : \E code \in {0, 1} :
        stop_build(reaped, crashed, code)

BuildFinished == \E code \in {0, 1} : \E own \in BOOLEAN : on_build_finished(code, own)

BuildError == \E own \in BOOLEAN : on_build_error(own)

NextRoot ==
    \/ SelectWorkspace
    \/ select_workspace_save
    \/ RefreshRoot
    \/ ShowGraphRoot
    \/ show_dependency_graph_open
    \/ ClosureLoop
    \/ ClosureDone
    \/ CloseGraph
    \/ BuildPackage
    \/ StopBuild
    \/ BuildFinished
    \/ on_build_finished_save
    \/ BuildError
    \/ on_build_error_closed

SpecRoot == InitRoot /\ [][NextRoot]_vars

\* The scene of the graph dialog, built for every node set and every edge
\* set over it, and the clicks on its nodes.
BuildScene ==
    /\ sc_pc = "closed"
    /\ \E nodes \in SUBSET Pkgs : \E edges \in SUBSET (nodes \X nodes) :
          build_dependency_scene(nodes, edges)
    /\ UNCHANGED <<graphVars, package_checkboxes, config, selVars, viewVars, parseVars,
                   rootVars>>

Press ==
    \E self \in Pkgs : \E button \in {"left", "right"} : \E ctrl \in BOOLEAN :
        mousePressEvent(self, button, ctrl)

Release == \E moved \in BOOLEAN : \E ctrl \in BOOLEAN : mouseReleaseEvent(moved, ctrl)

NextScene ==
    \/ BuildScene
    \/ Press
    \/ Release
    \/ BackgroundClick
    \/ CloseScene

SpecScene == InitScan /\ [][NextScene]_vars

\* get_package_dependencies applied to every document of up to MaxElems
\* elements.
Tags == {"depend", "build_depend", "build_export_depend", "exec_depend",
         "test_depend", "license"}

Texts == {"", "a", "b"}

Docs ==
    {BadXml, RaisingXml} \cup
    { [xml |-> TRUE, parses |-> TRUE, raises |-> FALSE, name |-> "a", elems |-> e] :
        e \in UNION { [1..n -> Tags \X Texts] : n \in 0..MaxElems } }

NextParse == \E doc \in Docs : ParseDocument(doc)

SpecParse == InitScan /\ [][NextParse]_vars

\* ------------------------------------------------------------------------
\* Properties of the selection propagation
\* ------------------------------------------------------------------------

\* The packages reachable from the set S along the edges of map, S included.
RECURSIVE Reach(_, _)
Reach(map, S) ==
    LET N == S \cup UNION { Get(map, x) : x \in S } IN
    IF N = S THEN S ELSE Reach(map, N)

Selected == { p \in DOMAIN package_checkboxes : package_checkboxes[p] }

Quiescent == stack = <<>>

\* C1: once the propagation started by the user checking P has completed, P
\* and every package reachable from P along forward edges is selected.
C1_SelectReachesDependencies ==
    (Quiescent /\ event.kind = "check") =>
        Reach(package_dependencies, {event.pkg}) \subseteq Selected

\* A completed check of a package on a three-package dependency cycle whose
\* two other members were unselected before (each of them ran the handler).
C1_Witness ==
    /\ Quiescent /\ event.kind = "check" /\ topCalls = 3
    /\ Reach(package_dependencies, {event.pkg}) = Pkgs
    /\ \A p \in Pkgs : event.pkg \in Reach(package_dependencies, package_dependencies[p])
    /\ Selected = Pkgs

\* C2: in every quiescent state the selection is closed under forward edges.
C2_SelectionClosed ==
    Quiescent =>
        \A p \in Selected : Reach(package_dependencies, {p}) \subseteq Selected

\* C3: once the propagation started by the user unchecking P has completed, P
\* and every package reachable from P along reverse edges is unselected.
C3_DeselectReachesDependents ==
    (Quiescent /\ event.kind = "uncheck") =>
        Reach(reverse_dependencies, {event.pkg}) \cap Selected = {}

\* A completed uncheck of a package with a direct and a transitive dependent,
\* both selected before (each of them ran the handler).
C3_Witness ==
    /\ Quiescent /\ event.kind = "uncheck" /\ topCalls = 3
    /\ Reach(reverse_dependencies, {event.pkg}) = Pkgs
    /\ Cardinality(reverse_dependencies[event.pkg] \ {event.pkg}) = 1
    /\ Selected = {}

\* The packages the propagation of the current user toggle may touch.
Touchable ==
    IF event.kind = "check" THEN Reach(package_dependencies, {event.pkg})
    ELSE Reach(reverse_dependencies, {event.pkg})

\* C4: a step of the propagation started by checking (unchecking) P changes
\* only checkboxes of P and of the packages forward (reverse) reachable from
\* P, and only to selected (unselected).
C4_Frame ==
    [][ event'.kind \in {"check", "uncheck"} =>
          \A q \in DOMAIN package_checkboxes :
              package_checkboxes'[q] # package_checkboxes[q] =>
                  /\ q \in Touchable'
                  /\ package_checkboxes'[q] = (event'.kind = "check") ]_vars

\* A completed uncheck of P that unselected a dependent of P and left a
\* selected dependency of P selected.
C4_Witness ==
    /\ Quiescent /\ event.kind = "uncheck" /\ topCalls = 2
    /\ \E q \in package_dependencies[event.pkg] :
          /\ q \notin Reach(reverse_dependencies, {event.pkg})
          /\ q \in Selected
    /\ \E d \in reverse_dependencies[event.pkg] : d # event.pkg /\ d \notin Selected

\* C5: a user toggle of one package makes exactly one top-level call of
\* select_dependencies / deselect_dependent_packages.
C5_OneTopLevelCall ==
    event.kind \in {"check", "uncheck"} => topCalls = 1

\* Sum of f over the finite set S.
RECURSIVE Sum(_, _)
Sum(f, S) ==
    IF S = {} THEN 0
    ELSE LET x == CHOOSE y \in S : TRUE IN f[x] + Sum(f, S \ {x})

\* The map the calls of the propagation in progress iterate over.
Direction ==
    IF stack[1].fn \in {"select", "select_all"} THEN package_dependencies
    ELSE reverse_dependencies

\* The checkboxes the propagation in progress can still flip.
Flippable ==
    { p \in DOMAIN package_checkboxes :
        package_checkboxes[p] # (stack[1].fn \in {"select", "select_all"}) }

\* An upper bound of the loop iterations the propagation in progress has
\* still to run: the elements left in the active loops, the targets of the
\* packages each active top-level call has not visited, and a full traversal
\* for every checkbox that can still flip.
Variant ==
    IF stack = <<>> THEN 0
    ELSE LET out == [n \in DOMAIN Direction |-> Cardinality(Direction[n])]
             edges == Sum(out, DOMAIN out)
         IN  Cardinality(Flippable) * (edges + 1)
             + Sum([i \in DOMAIN stack |-> Cardinality(stack[i].todo)], DOMAIN stack)
             + Sum([k \in DOMAIN chains |-> Sum(out, DOMAIN out \ chains[k])],
                   DOMAIN chains)

\* Within one top-level call a package gets past the visited test at most once.
ProcessedOnce ==
    \A k \in DOMAIN processed : \A p \in Pkgs : processed[k][p] <= 1

\* A propagation in progress can take its next step.
CanStep ==
    stack # <<>> =>
        /\ Len(stack) < MaxStack
        /\ Last(stack).pc = "loop" /\ Last(stack).todo # {}

\* C6: every propagation terminates: while it is in progress a next step is
\* possible and every step lowers the natural number Variant; and within one
\* top-level call a package is processed at most once.
C6_Terminates ==
    [][ /\ ProcessedOnce' /\ CanStep'
        /\ stack # <<>> => Variant' < Variant ]_vars

\* A propagation over a three-package cycle in progress, three top-level
\* calls deep.
C6_Witness ==
    /\ Len(chains) = 3
    /\ \A p \in Pkgs : Reach(package_dependencies, {p}) = Pkgs
    /\ \E p \in Pkgs : p \in package_dependencies[p]

\* ------------------------------------------------------------------------
\* Properties of the scan
\* ------------------------------------------------------------------------

\* The directories of t whose manifest declares the name n.
Declaring(t, n) == { i \in DirIdx : t[i].xml /\ t[i].parses /\ t[i].name = n }

\* The five dependency kinds of a manifest.
FiveKinds == {"depend", "build_depend", "build_export_depend", "exec_depend",
              "test_depend"}

\* The identifiers a manifest lists in its dependency fields.
DeclaredIds(m) ==
    { e[2] : e \in { f \in { m.elems[i] : i \in DOMAIN m.elems } :
                        f[1] \in FiveKinds /\ f[2] # "" } }

\* The package names found in the tree t.
Found(t) == { n \in Pkgs : Declaring(t, n) # {} }

\* The raw dependency identifiers of package n: those of its manifest, the
\* last in walk order when several directories declare n.
RawDeps(t, n) ==
    DeclaredIds(t[CHOOSE i \in Declaring(t, n) : \A j \in Declaring(t, n) : j <= i])

\* The part of the tree t a scan walks: the directories before the first
\* manifest on which the parser raises.
Walked(t) ==
    [i \in DirIdx |-> IF \E j \in 1..i : t[j].xml /\ t[j].raises THEN NoXml ELSE t[i]]

\* C7: the two maps are transposes of each other and their keys are exactly
\* the packages found by the most recent scan (in the directories it
\* walked), every edge being declared in the tree of that scan.
C7_Transposes ==
    /\ DOMAIN package_dependencies = Found(Walked(tree))
    /\ DOMAIN reverse_dependencies = Found(Walked(tree))
    /\ \A a \in Found(Walked(tree)) : \A b \in Found(Walked(tree)) :
          (a \in reverse_dependencies[b]) <=> (b \in package_dependencies[a])
    /\ \A a \in Found(Walked(tree)) :
          package_dependencies[a] \subseteq UNION { DeclaredIds(tree[i]) : i \in Declaring(tree, a) }

\* A scan that found two of the three packages, on a 2-cycle, next to a
\* directory without a usable manifest.
C7_Witness ==
    /\ Cardinality(Found(tree)) = 2
    /\ \E a \in Found(tree) : \E b \in Found(tree) :
          /\ a # b
          /\ b \in package_dependencies[a] /\ a \in package_dependencies[b]
          /\ reverse_dependencies[a] = {b}

\* C8: forward[P] is the intersection of P's raw dependency identifiers
\* with the known packages (those of the directories the scan walked), for
\* every scanned package P; an unknown identifier is no edge and no key.
C8_ForwardIsIntersection ==
    /\ \A n \in DOMAIN package_dependencies :
          package_dependencies[n] = RawDeps(Walked(tree), n) \cap Found(Walked(tree))
    /\ \A n \in DOMAIN reverse_dependencies :
          reverse_dependencies[n] \subseteq Found(tree)
    /\ (DOMAIN package_dependencies) \cup (DOMAIN reverse_dependencies) \subseteq Found(tree)

\* ------------------------------------------------------------------------
\* Properties of the closure
\* ------------------------------------------------------------------------

Range(q) == { q[i] : i \in DOMAIN q }

\* An upper bound of the iterations the while loop has still to run: the
\* entries on the stack, and for every package not yet in nodes its
\* expansion and the entries that appends.
ClosureVariant ==
    Len(g_stack)
    + Sum([n \in DOMAIN package_dependencies |->
              Cardinality(package_dependencies[n]) + 1],
          (DOMAIN package_dependencies) \ g_nodes)

\* C9: for a non-empty seed list the while loop ends with exactly the
\* packages reachable from the seeds along forward edges (the seeds and the
\* closure of every member included); it ends because every iteration lowers
\* the natural number ClosureVariant, and it expands a package at most once.
C9_ClosureIsReachable ==
    [][ /\ (g_pc' = "done" /\ g_seeds' # <<>>) =>
              /\ g_nodes' = Reach(package_dependencies', Range(g_seeds'))
              /\ Range(g_seeds') \subseteq g_nodes'
              /\ \A s \in g_nodes' : Reach(package_dependencies', {s}) \subseteq g_nodes'
        /\ \A p \in Pkgs : g_expanded'[p] <= 1
        /\ (g_pc = "loop" /\ g_stack # <<>>) => ClosureVariant' < ClosureVariant
      ]_vars

\* The closure of one selected package that reaches the two others, one of
\* them over two paths, in a graph with a cycle, and leaves a duplicate on
\* the stack on the way.
C9_Witness ==
    /\ g_pc = "done"
    /\ Len(g_seeds) = 1
    /\ g_nodes = Pkgs
    /\ Cardinality(package_dependencies[g_seeds[1]] \ {g_seeds[1]}) = 2
    /\ \E p \in Pkgs : p # g_seeds[1] /\ g_seeds[1] \in package_dependencies[p]

\* The set S holds the dependencies of its members.
ForwardClosed(S) == \A n \in S : Get(package_dependencies, n) \subseteq S

\* C10: the closure of a closure is that closure: what the while loop ends
\* with is forward-closed, and on seeds that are forward-closed (as every
\* closure is) it ends with exactly the seeds.
C10_ClosureIdempotent ==
    (g_pc = "done" /\ g_seeds # <<>>) =>
        /\ ForwardClosed(g_nodes)
        /\ ForwardClosed(Range(g_seeds)) => g_nodes = Range(g_seeds)

\* The loop run on two selected packages that are the closure of one of
\* them, in a workspace where a third package depends on them.
C10_Witness ==
    /\ g_pc = "done" /\ Len(g_seeds) = 2 /\ ForwardClosed(Range(g_seeds))
    /\ g_nodes = Range(g_seeds)
    /\ \E p \in g_nodes : package_dependencies[p] = g_nodes \ {p}
    /\ \E q \in DOMAIN package_dependencies \ g_nodes :
          package_dependencies[q] \cap g_nodes # {}

\* ------------------------------------------------------------------------
\* Properties of the layering and the layout
\* ------------------------------------------------------------------------

\* The edges of the scene as a map from a package to its destinations.
EdgeMap == [n \in Pkgs |-> { d \in Pkgs : <<n, d>> \in scene_edges }]

\* n lies on a cycle of the scene's edges (a self-edge is a cycle).
OnCycle(n) == n \in Reach(EdgeMap, EdgeMap[n])

Acyclic == \A n \in Pkgs : ~OnCycle(n)

\* The indexes of the layers that hold n.
LayersOf(n) == { i \in DOMAIN levels : n \in Range(levels[i]) }

\* C11: on an acyclic node/edge set, the source of every edge is placed, the
\* destination is placed, and the source's layer is strictly earlier than
\* the destination's.
C11_SourceBeforeDestination ==
    (sc_pc = "open" /\ Acyclic) =>
        \A e \in scene_edges :
            /\ LayersOf(e[1]) # {} /\ LayersOf(e[2]) # {}
            /\ \A i \in LayersOf(e[1]) : \A j \in LayersOf(e[2]) : i < j

\* An acyclic scene in which a node has sources in two different layers:
\* a -> b -> c and a -> c, layered in three layers.
C11_Witness ==
    /\ sc_pc = "open" /\ Acyclic
    /\ Len(levels) = 3
    /\ \E e \in scene_edges : \E i \in LayersOf(e[1]) : i + 2 \in LayersOf(e[2])

\* C12: every package on a cycle is placed in exactly one layer, the last
\* one; the 2-cycle alone is layered in a single layer.
C12_CycleInLastLayer ==
    sc_pc = "open" =>
        /\ \A n \in Pkgs : OnCycle(n) => LayersOf(n) = {Len(levels)}
        /\ \A x, y \in Pkgs :
              (x # y /\ DOMAIN node_items = {x, y}
                 /\ scene_edges = {<<x, y>>, <<y, x>>})
              => (Len(levels) = 1 /\ Range(levels[1]) = {x, y})

\* A scene with a 2-cycle below a node that is on no cycle: two layers, the
\* cycle in the second.
C12_Witness ==
    /\ sc_pc = "open"
    /\ Len(levels) = 2
    /\ \E x, y \in Pkgs :
          /\ x # y /\ {<<x, y>>, <<y, x>>} \subseteq scene_edges
          /\ {x, y} = Range(levels[2])
    /\ \E z \in Pkgs : ~OnCycle(z) /\ z \in Range(levels[1])

\* C13: the position map of the scene is the one every layout computation
\* over the same node and edge sets produces, whatever order the sets are
\* iterated in.
C13_LayoutDeterministic ==
    (sc_pc = "open" /\ pressed = NoPress) =>
        \A lv \in Levels(DOMAIN node_items, scene_edges) : Layout(lv) = pos

\* A scene whose layering has a layer that is not in sorted order, and
\* whose nodes can be layered with differently ordered lists.
C13_Witness ==
    /\ sc_pc = "open" /\ pressed = NoPress
    /\ \E i \in DOMAIN levels : Len(levels[i]) >= 2 /\ levels[i] # sorted(levels[i])
    /\ Cardinality(Levels(DOMAIN node_items, scene_edges)) > 1

\* ------------------------------------------------------------------------
\* Properties of the focus and the highlights
\* ------------------------------------------------------------------------

\* The focused packages: the node items for which isSelected() holds.
Focused == { n \in DOMAIN node_items : node_items[n].isSelected }

\* No click is in progress in the open dialog.
Settled == sc_pc = "open" /\ ~pressed.grab

\* The tag of node n when F is the focused package.
Classify(F, n) ==
    IF n = F THEN None
    ELSE IF <<n, F>> \in scene_edges THEN "incoming"
    ELSE IF <<F, n>> \in scene_edges THEN "outgoing"
    ELSE None

\* Every node carries the tag it has when F is focused.
TagsReflect(F) ==
    \A n \in DOMAIN node_items : node_items[n].highlight_type = Classify(F, n)

\* No node is tagged and every edge has the default colour.
NoHighlight ==
    /\ \A n \in DOMAIN node_items : node_items[n].highlight_type = None
    /\ \A e \in DOMAIN edge_items : edge_items[e] = "default"

\* C14: whenever exactly one package F is focused, the packages with an
\* edge into F are tagged incoming, the packages F has an edge into are
\* tagged outgoing and every other package is tagged none.
C14_FocusClassifies ==
    Settled => \A F \in Pkgs : Focused = {F} => TagsReflect(F)

\* C15: after a left click on a node without modifier, if no package is
\* focused then no node is tagged and every edge has the default colour,
\* and if the click was on the focused node then no package is focused and
\* nothing is highlighted.
C15_NoFocusNoHighlight ==
    (Settled /\ pressed.button = "left" /\ ~pressed.ctrl /\ ~pressed.rctrl) =>
        /\ Focused = {} => NoHighlight
        /\ pressed.node \in pressed.prev => (Focused = {} /\ NoHighlight)

\* C16: at most one node is focused, and a left press on a node while
\* another one is focused leaves the other one unfocused and the tags those
\* of the pressed node.
C16_SingleFocus ==
    sc_pc = "open" =>
        /\ Cardinality(Focused) <= 1
        /\ (pressed.button = "left" /\ pressed.prev # {} /\ pressed.node \notin pressed.prev)
              => (pressed.prev \cap Focused = {} /\ TagsReflect(pressed.node))

\* A second node clicked while a first one was focused: the second is the
\* focused node and the first is tagged as its neighbour.
C16_Witness ==
    /\ Settled
    /\ pressed.button = "left" /\ ~pressed.ctrl /\ ~pressed.rctrl
    /\ Focused = {pressed.node}
    /\ \E F \in pressed.prev :
          F # pressed.node /\ node_items[F].highlight_type = "outgoing"

\* C20: a focused node carries no tag, and a package on a 2-cycle with the
\* newly focused package F is tagged incoming.
C20_IncomingWins ==
    sc_pc = "open" =>
        /\ \A F \in Focused : node_items[F].highlight_type = None
        /\ (pressed.button = "left" /\ pressed.node \notin pressed.prev)
              => \A X \in DOMAIN node_items :
                    (X # pressed.node /\ <<X, pressed.node>> \in scene_edges
                                      /\ <<pressed.node, X>> \in scene_edges)
                    => node_items[X].highlight_type = "incoming"

\* A newly focused package with a self-edge and a 2-cycle with another one.
C20_Witness ==
    /\ Settled
    /\ pressed.button = "left" /\ pressed.node \notin pressed.prev
    /\ Focused = {pressed.node}
    /\ <<pressed.node, pressed.node>> \in scene_edges
    /\ \E X \in DOMAIN node_items :
          /\ X # pressed.node
          /\ {<<X, pressed.node>>, <<pressed.node, X>>} \subseteq scene_edges
          /\ node_items[X].highlight_type = "incoming"

\* ------------------------------------------------------------------------
\* Properties of the rescan and of the manifest parser
\* ------------------------------------------------------------------------

\* C17: a rescan leaves the selection state of every package that is known
\* before and after it as it was immediately before.
C17_RescanPreservesSelection ==
    [][ (stack = <<>> /\ g_pc = "idle" /\ event' = NoEvent /\ config' = config)
          => \A p \in (DOMAIN package_checkboxes) \cap (DOMAIN package_checkboxes') :
                package_checkboxes'[p] = package_checkboxes[p] ]_vars

\* The tree t without the manifests that fail to parse or have no name.
Pruned(t) ==
    [i \in DirIdx |->
        IF t[i].xml /\ (~t[i].parses \/ t[i].name = None) THEN NoXml ELSE t[i]]

\* C18: a manifest that fails to parse or has no name adds no key to either
\* map, no edge and no checkbox, and the scan gives every other package the
\* entries and edges it has in the tree without that manifest.
C18_BadManifestExcluded ==
    /\ None \notin (DOMAIN package_dependencies) \cup (DOMAIN reverse_dependencies)
                      \cup (DOMAIN package_checkboxes)
    /\ \A p \in DOMAIN package_dependencies : None \notin package_dependencies[p]
    /\ \A p \in DOMAIN reverse_dependencies : None \notin reverse_dependencies[p]
    /\ \E r \in {Scan(Pruned(tree), EmptyMap, EmptyMap)} :
          /\ package_dependencies = r.fwd
          /\ reverse_dependencies = r.rev
          /\ DOMAIN package_checkboxes = DOMAIN r.avail

\* C19: the dependency set the parser returns holds exactly the identifiers
\* the document lists under one of the five dependency kinds.
C19_UnionOfFiveKinds ==
    (m_doc.xml /\ ~m_exc) => m_deps = DeclaredIds(m_doc)

\* A document that lists one identifier under two kinds and another one
\* under a third kind.
C19_Witness ==
    /\ m_doc.xml /\ m_doc.parses
    /\ m_doc.elems = <<<<"depend", "a">>, <<"test_depend", "a">>, <<"exec_depend", "b">>>>
    /\ m_deps = {"a", "b"}

\* C21: no package is its own dependency or its own dependent in the maps
\* a scan builds, also when its manifest lists the package itself.
C21_SelfEdgesDropped ==
    /\ \A p \in DOMAIN package_dependencies : p \notin package_dependencies[p]
    /\ \A p \in DOMAIN reverse_dependencies : p \notin reverse_dependencies[p]

\* C22: the dialog shows the selected packages and everything they reach
\* along forward edges when a package is selected, every known package
\* otherwise, and in both cases exactly the forward edges between the nodes
\* it shows: its scene has a node item for each of these nodes and an edge
\* item for each of these edges.
C22_GraphViewNodesAndEdges ==
    g_pc = "done" =>
        /\ sc_pc = "open" /\ DOMAIN node_items = g_nodes /\ DOMAIN edge_items = g_edges
        /\ g_nodes = IF Selected # {}
                     THEN Reach(package_dependencies, Selected)
                     ELSE DOMAIN package_checkboxes
        /\ g_edges = { e \in Pkgs \X Pkgs :
                         /\ e[1] \in g_nodes /\ e[2] \in g_nodes
                         /\ e[2] \in Get(package_dependencies, e[1]) }

\* The dialog opened without a selection on a workspace of three packages
\* with a chain of dependencies: all packages, both edges.
C22_Witness ==
    /\ g_pc = "done" /\ Selected = {} /\ sc_pc = "open" /\ DOMAIN node_items = Pkgs
    /\ g_nodes = Pkgs
    /\ \E x, y, z \in Pkgs : g_edges = {<<x, y>>, <<y, z>>} /\ x # y /\ y # z /\ x # z

\* The number of nodes of the set S that sort before n.
RankIn(n, S) == Cardinality({ m \in S : Rank[m] < Rank[n] })

\* C23: a node's x coordinate is X_SPACING times the index of its layer and
\* its y coordinate is Y_SPACING times its rank in the sorted layer, counted
\* from zero; no two nodes share a position.
C23_Positions ==
    sc_pc = "open" =>
        /\ DOMAIN pos = scene_nodes
        /\ \A n \in scene_nodes :
              \E i \in LayersOf(n) :
                 pos[n] = <<X_SPACING * (i - 1),
                            Y_SPACING * RankIn(n, Range(levels[i]))>>
        /\ \A i, j \in DOMAIN levels :
              \A n \in Range(levels[i]) : \A m \in Range(levels[j]) :
                 i < j => pos[n][1] < pos[m][1]
        /\ \A n, m \in scene_nodes : n # m => pos[n] # pos[m]

\* A scene of two layers with two nodes in one of them.
C23_Witness ==
    /\ sc_pc = "open" /\ scene_nodes = Pkgs
    /\ Len(levels) = 2
    /\ \E i \in DOMAIN levels : Len(levels[i]) = 2
    /\ \E n \in Pkgs : pos[n] = <<X_SPACING, Y_SPACING>>

\* C24: the layers partition the node set (every node in exactly one layer,
\* once; no empty layer; no layer for the empty node set), and every edge
\* goes to a strictly later layer or has both ends in the last layer.
C24_LayersPartition ==
    sc_pc = "open" =>
        /\ \A n \in scene_nodes : Cardinality(LayersOf(n)) = 1
        /\ \A i \in DOMAIN levels :
              /\ levels[i] # <<>>
              /\ Range(levels[i]) \subseteq scene_nodes
              /\ \A j, k \in DOMAIN levels[i] : levels[i][j] = levels[i][k] => j = k
        /\ scene_nodes = {} => levels = <<>>
        /\ \A e \in scene_edges :
              \A i \in LayersOf(e[1]) : \A j \in LayersOf(e[2]) :
                 i < j \/ (i = Len(levels) /\ j = Len(levels))

\* A scene with a node above a 2-cycle: the edge into the cycle goes to a
\* later layer, the edges of the cycle stay inside the last layer.
C24_Witness ==
    /\ sc_pc = "open" /\ scene_nodes = Pkgs
    /\ Len(levels) = 2 /\ Len(levels[2]) = 2
    /\ \E x, y \in Range(levels[2]) : x # y /\ {<<x, y>>, <<y, x>>} \subseteq scene_edges
    /\ \E z \in Range(levels[1]) : \E x \in Range(levels[2]) : <<z, x>> \in scene_edges

\* C25: a refresh_packages that fails one of its two tests leaves the known
\* packages, both dependency maps and the selection state as they were, and
\* after a workspace is chosen the packages that are listed were scanned
\* from the workspace root that is current.
C25_ListingFollowsRoot ==
    [][ /\ event'.kind = "refused" =>
              UNCHANGED <<package_dependencies, reverse_dependencies, package_checkboxes>>
        /\ (event'.kind = "workspace" /\ DOMAIN package_checkboxes' # {}) =>
              listed_root' = workspace_root' ]_vars

====
